---- MODULE Spec2Model ----
(***************************************************************************)
(* Model of shannon/discrete.py: entropy, symbols_to_prob,                 *)
(* combine_symbols, mi, cond_mi and mi_chain_rule.                         *)
(*                                                                         *)
(* Numbers.  A probability is an integer number of units of 1/Scale, so    *)
(* the quotient n/N of symbols_to_prob is exact for every N the model      *)
(* draws.  A real result r (an entropy, an information) is the vector e    *)
(* over Primes with  r = (1/Scale) * SUM_p e[p]*log2(p); the logarithms of *)
(* the primes are linearly independent over the rationals, so two results  *)
(* are equal reals iff their vectors are equal.  Floating-point rounding   *)
(* is not modelled.  np.float (line 65) is taken as the builtin float it   *)
(* aliased in the numpy releases the module was written for.               *)
(***************************************************************************)
EXTENDS Integers, Sequences, FiniteSets, TLC

\* ---- bounds of the model ------------------------------------------------
MaxSym == 1
MaxLen == 4
MaxRowLen == 2
MaxK == 2
MaxArgs == 3
MaxBothLen == 1
MaxProbLen == 3
Grid == 4
MaxErr == 2

\* ---- arithmetic ----------------------------------------------------------
RECURSIVE GCD(_, _)
GCD(a, b) == IF b = 0 THEN a ELSE GCD(b, a % b)

LCM(a, b) == (a * b) \div GCD(a, b)

RECURSIVE LCMUpTo(_)
LCMUpTo(n) == IF n <= 1 THEN 1 ELSE LCM(n, LCMUpTo(n - 1))

Max(a, b) == IF a >= b THEN a ELSE b

Abs(a) == IF a >= 0 THEN a ELSE 0 - a

\* 1.0 in units; the factor 2 keeps one unit strictly below one grid step
Scale == 2 * LCM(LCM(LCMUpTo(MaxLen), LCMUpTo(MaxRowLen)), Grid)

\* one grid step of the probability arrays the model hands to entropy
Unit == Scale \div Grid

\* the default errorVal=1e-5: positive and below every non-zero deviation
DefaultErrorVal == 1

Primes == {p \in 2..Max(Max(MaxLen, MaxRowLen), Grid + 1) :
             \A d \in 2..(p - 1) : p % d # 0}

RECURSIVE Val(_, _)
Val(p, n) == IF n % p = 0 THEN 1 + Val(p, n \div p) ELSE 0

Zero == [p \in Primes |-> 0]

\* a float scalar: NaN, or the real number with vector e
FNum(e) == [nan |-> FALSE, e |-> e]

FNaN == [nan |-> TRUE, e |-> Zero]

FAdd(a, b) == IF a.nan \/ b.nan THEN FNaN
              ELSE FNum([p \in Primes |-> a.e[p] + b.e[p]])

FNeg(a) == IF a.nan THEN FNaN ELSE FNum([p \in Primes |-> 0 - a.e[p]])

FSub(a, b) == FAdd(a, FNeg(b))

\* log2(p) in 1/10000 bit, rounded down and rounded up
LogLo(p) == CASE p = 2 -> 10000 [] p = 3 -> 15849 [] p = 5 -> 23219
              [] p = 7 -> 28073 [] OTHER -> 30000

LogHi(p) == CASE p = 2 -> 10000 [] p = 3 -> 15850 [] p = 5 -> 23220
              [] p = 7 -> 28074 [] OTHER -> 10000 * p

RECURSIVE SumOver(_, _)
SumOver(S, f) == IF S = {} THEN 0
                 ELSE LET p == CHOOSE q \in S : TRUE
                      IN f[p] + SumOver(S \ {p}, f)

\* a lower bound of Scale*10000*r for the real r with vector e
BoundLo(e) == SumOver(Primes, [p \in Primes |->
                 IF e[p] >= 0 THEN e[p] * LogLo(p) ELSE e[p] * LogHi(p)])

NonNegative(a) == ~a.nan /\ BoundLo(a.e) >= 0

RECURSIVE SumSeq(_)
SumSeq(s) == IF s = <<>> THEN 0 ELSE s[1] + SumSeq(Tail(s))

\* ---- outcomes of a call --------------------------------------------------
Ok(v) == [kind |-> "ok", exc |-> "", site |-> "", val |-> v]

Raise(exc, site) == [kind |-> "raise", exc |-> exc, site |-> site, val |-> <<>>]

SameOutcome(a, b) == /\ a.kind = b.kind
                     /\ IF a.kind = "ok" THEN a.val = b.val
                        ELSE a.exc = b.exc /\ a.site = b.site

None == [given |-> FALSE, ndarray |-> FALSE, v |-> <<>>]

Given(v) == [given |-> TRUE, ndarray |-> TRUE, v |-> v]

NotNdarray(v) == [given |-> TRUE, ndarray |-> FALSE, v |-> v]

\* ---- symbols_to_prob -----------------------------------------------------
\* keys of Counter(symbols), in insertion (first occurrence) order
RECURSIVE CounterKeys(_)
CounterKeys(s) ==
  IF s = <<>> THEN <<>>
  ELSE LET r == CounterKeys(SubSeq(s, 1, Len(s) - 1))
           last == s[Len(s)]
       IN IF \E i \in 1..Len(r) : r[i] = last THEN r ELSE Append(r, last)

Count(s, k) == Cardinality({i \in 1..Len(s) : s[i] = k})

symbols_to_prob_len(symbols) ==
  LET keys == CounterKeys(symbols)
      asList == [i \in 1..Len(keys) |-> Count(symbols, keys[i])]
      N == Len(asList)
  IN [i \in 1..Len(asList) |-> (asList[i] * Scale) \div N]

symbols_to_prob(symbols) ==
  LET keys == CounterKeys(symbols)
      asList == [i \in 1..Len(keys) |-> Count(symbols, keys[i])]
      N == SumSeq(asList)
  IN [i \in 1..Len(asList) |-> (asList[i] * Scale) \div N]

\* ---- entropy -------------------------------------------------------------
\* np.log2 of one entry q/Scale: a number, -inf at 0, NaN below 0
Log2Elem(q) ==
  IF q > 0 THEN [k |-> "num", e |-> [p \in Primes |-> Val(p, q) - Val(p, Scale)]]
  ELSE IF q = 0 THEN [k |-> "ninf", e |-> Zero]
  ELSE [k |-> "nan", e |-> Zero]

log2(prob) == [i \in 1..Len(prob) |-> Log2Elem(prob[i])]

keep_neg_inf(logProb) == logProb

\* logProb[logProb==-np.inf] = 0
replace_neg_inf(logProb) ==
  [i \in 1..Len(logProb) |->
     IF logProb[i].k = "ninf" THEN [k |-> "num", e |-> Zero] ELSE logProb[i]]

RECURSIVE DotVec(_, _, _)
DotVec(prob, logProb, i) ==
  IF i > Len(prob) THEN Zero
  ELSE LET rest == DotVec(prob, logProb, i + 1)
       IN [p \in Primes |-> prob[i] * logProb[i].e[p] + rest[p]]

\* np.dot(prob, logProb); -inf only ever stands where prob is 0, and
\* 0 * -inf is NaN
dot(prob, logProb) ==
  IF \E i \in 1..Len(prob) : logProb[i].k # "num" THEN FNaN
  ELSE FNum(DotVec(prob, logProb, 1))

\* lines 40-45
entropy_value(prob) == FNeg(dot(prob, replace_neg_inf(log2(prob))))

entropy_run_typefirst(data, prob, errorVal) ==
  IF prob.given /\ ~prob.ndarray THEN
    [ret |-> Raise("TypeError", "ndarray"), steps |-> <<"isinstance">>]
  ELSE IF ~prob.given /\ ~data.given THEN
    [ret |-> Raise("ValueError", "neither"), steps |-> <<>>]
  ELSE IF prob.given /\ data.given THEN
    [ret |-> Raise("ValueError", "both"), steps |-> <<"isinstance">>]
  ELSE IF prob.given /\ Abs(SumSeq(prob.v) - Scale) > errorVal THEN
    [ret |-> Raise("ValueError", "sum"), steps |-> <<"isinstance", "sum">>]
  ELSE IF data.given THEN
    [ret |-> Ok(entropy_value(symbols_to_prob(data.v))),
     steps |-> <<"symbols_to_prob", "log2", "dot">>]
  ELSE
    [ret |-> Ok(entropy_value(prob.v)),
     steps |-> <<"isinstance", "sum", "log2", "dot">>]

\* the whole of entropy: its outcome and the steps it ran after the two
\* argument checks
entropy_run(data, prob, errorVal) ==
  IF ~prob.given /\ ~data.given THEN
    [ret |-> Raise("ValueError", "neither"), steps |-> <<>>]
  ELSE IF prob.given /\ data.given THEN
    [ret |-> Raise("ValueError", "both"), steps |-> <<>>]
  ELSE IF prob.given /\ ~prob.ndarray THEN
    [ret |-> Raise("TypeError", "ndarray"), steps |-> <<"isinstance">>]
  ELSE IF prob.given /\ Abs(SumSeq(prob.v) - Scale) > errorVal THEN
    [ret |-> Raise("ValueError", "sum"), steps |-> <<"isinstance", "sum">>]
  ELSE IF data.given THEN
    [ret |-> Ok(entropy_value(symbols_to_prob(data.v))),
     steps |-> <<"symbols_to_prob", "log2", "dot">>]
  ELSE
    [ret |-> Ok(entropy_value(prob.v)),
     steps |-> <<"isinstance", "sum", "log2", "dot">>]

entropy(data, prob, errorVal) == entropy_run(data, prob, errorVal).ret

\* ---- combine_symbols -----------------------------------------------------
MinLen(args) == CHOOSE n \in {Len(args[j]) : j \in 1..Len(args)} :
                  \A j \in 1..Len(args) : n <= Len(args[j])

\* tuple(zip(*args)): zip stops at the shortest argument
zip_star(args) ==
  IF args = <<>> THEN <<>>
  ELSE [n \in 1..MinLen(args) |-> [j \in 1..Len(args) |-> args[j][n]]]

combine_symbols_skipfirst(args) ==
  IF \E j \in 2..Len(args) : Len(args[j]) # Len(args[2])
  THEN Raise("ValueError", "sizes")
  ELSE Ok(zip_star(args))

combine_symbols(args) ==
  IF \E j \in 1..Len(args) : Len(args[j]) # Len(args[1])
  THEN Raise("ValueError", "sizes")
  ELSE Ok(zip_star(args))

\* ---- mi ------------------------------------------------------------------
\* the first operand that raises decides; otherwise the value f of the sums
FirstRaise(hs) == CHOOSE i \in 1..Len(hs) :
                    /\ hs[i].kind = "raise"
                    /\ \A j \in 1..(i - 1) : hs[j].kind = "ok"

AllOk(hs) == \A i \in 1..Len(hs) : hs[i].kind = "ok"

mi_conditional(x, y) ==
  LET probX == symbols_to_prob(x)
      probY == symbols_to_prob(y)
      probXY == symbols_to_prob(zip_star(<<x, y>>))
      hs == <<entropy(None, Given(probX), DefaultErrorVal),
              entropy(None, Given(probXY), DefaultErrorVal),
              entropy(None, Given(probY), DefaultErrorVal)>>
  IN IF AllOk(hs)
     THEN Ok(FSub(FAdd(hs[1].val, hs[2].val), hs[3].val))
     ELSE hs[FirstRaise(hs)]

mi(x, y) ==
  LET probX == symbols_to_prob(x)
      probY == symbols_to_prob(y)
      probXY == symbols_to_prob(zip_star(<<x, y>>))
      hs == <<entropy(None, Given(probX), DefaultErrorVal),
              entropy(None, Given(probY), DefaultErrorVal),
              entropy(None, Given(probXY), DefaultErrorVal)>>
  IN IF AllOk(hs)
     THEN Ok(FSub(FAdd(hs[1].val, hs[2].val), hs[3].val))
     ELSE hs[FirstRaise(hs)]

\* ---- cond_mi -------------------------------------------------------------
\* Counter(symbols) hashes every symbol: a symbol that is, or holds, a list
\* or an ndarray raises TypeError
counter_raises(symbols, hashable) == ~hashable /\ symbols # <<>>

\* zHashable: whether the elements of z are hashable
cond_mi(x, y, z, zHashable) ==
  LET cXZ == combine_symbols(<<x, z>>)
      cYZ == combine_symbols(<<y, z>>)
      cXYZ == combine_symbols(<<x, y, z>>)
  IN IF cXZ.kind = "raise" THEN cXZ
     ELSE IF counter_raises(cXZ.val, zHashable) THEN Raise("TypeError", "unhashable")
     ELSE IF cYZ.kind = "raise" THEN cYZ
     ELSE IF counter_raises(cYZ.val, zHashable) THEN Raise("TypeError", "unhashable")
     ELSE IF cXYZ.kind = "raise" THEN cXYZ
     ELSE IF counter_raises(cXYZ.val, zHashable) THEN Raise("TypeError", "unhashable")
     ELSE IF counter_raises(z, zHashable) THEN Raise("TypeError", "unhashable")
     ELSE LET hs == <<entropy(None, Given(symbols_to_prob(cXZ.val)), DefaultErrorVal),
                      entropy(None, Given(symbols_to_prob(cYZ.val)), DefaultErrorVal),
                      entropy(None, Given(symbols_to_prob(cXYZ.val)), DefaultErrorVal),
                      entropy(None, Given(symbols_to_prob(z)), DefaultErrorVal)>>
          IN IF AllOk(hs)
             THEN Ok(FSub(FSub(FAdd(hs[1].val, hs[2].val), hs[3].val), hs[4].val))
             ELSE hs[FirstRaise(hs)]

\* ---- mi_chain_rule -------------------------------------------------------
\* the loop of lines 205-206 from index i on (1-based); X[:i] is the
\* sequence of the rows before row i
RECURSIVE chain_loop(_, _, _, _, _)
chain_loop(X, y, rowsHashable, i, chain) ==
  IF i > Len(X) THEN Ok(chain)
  ELSE LET t == cond_mi(X[i], y, SubSeq(X, 1, i - 1), rowsHashable)
       IN IF t.kind = "raise" THEN t
          ELSE chain_loop(X, y, rowsHashable, i + 1, [chain EXCEPT ![i] = t.val])

\* rowsHashable: whether the rows of X are hashable (tuples) or not (lists,
\* rows of a 2-d ndarray)
mi_chain_rule(X, y, rowsHashable) ==
  LET zeros == [i \in 1..Len(X) |-> FNum(Zero)]
      t == mi(X[1], y)
  IN IF t.kind = "raise" THEN t
     ELSE chain_loop(X, y, rowsHashable, 2, [zeros EXCEPT ![1] = t.val])

\* ---- inputs --------------------------------------------------------------
Symbols == 0..MaxSym

SeqsUpTo(S, n) == UNION {[1..m -> S] : m \in 0..n}

DataSeqs == SeqsUpTo(Symbols, MaxLen)

ProbVals == {k * Unit : k \in (0 - 1)..(Grid + 1)}

ProbArrays == SeqsUpTo(ProbVals, MaxProbLen)

ErrorVals == {DefaultErrorVal} \cup {k * Unit : k \in 0..MaxErr}

DataArgs == {None} \cup {Given(d) : d \in DataSeqs}

ProbArgs == {None, NotNdarray(<<Scale>>)} \cup {Given(a) : a \in ProbArrays}

\* the argument pairs of entropy: one argument, none, or both (short ones)
EntropyArgs ==
  ({None} \X ProbArgs) \cup (DataArgs \X {None})
    \cup ({d \in DataArgs : d.given /\ Len(d.v) <= MaxBothLen}
            \X {q \in ProbArgs : q.given /\ Len(q.v) <= MaxBothLen})

RowSymbols == {0, 1}

Rows == SeqsUpTo(RowSymbols, MaxRowLen)

RowLists == UNION {[1..k -> Rows] : k \in 1..MaxK}

ArgLists == UNION {[1..k -> Rows] : k \in 1..MaxArgs}

PairSeqs == SeqsUpTo(RowSymbols, MaxLen)

\* ---- state ---------------------------------------------------------------
VARIABLES pc, call, ret, steps, probAfter

vars == <<pc, call, ret, steps, probAfter>>

Init == /\ pc = "idle"
        /\ call = [op |-> "none"]
        /\ ret = Ok(<<>>)
        /\ steps = <<>>
        /\ probAfter = <<>>

CallEntropy ==
  /\ pc = "idle"
  /\ \E a \in EntropyArgs, errorVal \in ErrorVals :
       LET data == a[1]
           prob == a[2]
           r == entropy_run(data, prob, errorVal)
       IN /\ call' = [op |-> "entropy", data |-> data, prob |-> prob,
                      errorVal |-> errorVal]
          /\ ret' = r.ret
          /\ steps' = r.steps
          /\ probAfter' = prob.v
  /\ pc' = "done"

CallSymbolsToProb ==
  /\ pc = "idle"
  /\ \E symbols \in DataSeqs :
       /\ call' = [op |-> "symbols_to_prob", symbols |-> symbols]
       /\ ret' = Ok(symbols_to_prob(symbols))
  /\ steps' = <<>>
  /\ probAfter' = <<>>
  /\ pc' = "done"

CallCombineSymbols ==
  /\ pc = "idle"
  /\ \E args \in ArgLists :
       /\ call' = [op |-> "combine_symbols", args |-> args]
       /\ ret' = combine_symbols(args)
  /\ steps' = <<>>
  /\ probAfter' = <<>>
  /\ pc' = "done"

CallMi ==
  /\ pc = "idle"
  /\ \E x \in PairSeqs, y \in PairSeqs :
       /\ call' = [op |-> "mi", x |-> x, y |-> y]
       /\ ret' = mi(x, y)
  /\ steps' = <<>>
  /\ probAfter' = <<>>
  /\ pc' = "done"

CallCondMi ==
  /\ pc = "idle"
  /\ \E x \in Rows, y \in Rows, z \in Rows :
       /\ call' = [op |-> "cond_mi", x |-> x, y |-> y, z |-> z]
       /\ ret' = cond_mi(x, y, z, TRUE)
  /\ steps' = <<>>
  /\ probAfter' = <<>>
  /\ pc' = "done"

CallMiChainRule ==
  /\ pc = "idle"
  /\ \E X \in RowLists, y \in Rows, rowsHashable \in BOOLEAN :
       /\ call' = [op |-> "mi_chain_rule", X |-> X, y |-> y,
                   rowsHashable |-> rowsHashable]
       /\ ret' = mi_chain_rule(X, y, rowsHashable)
  /\ steps' = <<>>
  /\ probAfter' = <<>>
  /\ pc' = "done"

Next == \/ CallEntropy
        \/ CallSymbolsToProb
        \/ CallCombineSymbols
        \/ CallMi
        \/ CallCondMi
        \/ CallMiChainRule

Spec == Init /\ [][Next]_vars

\* ---- properties ----------------------------------------------------------
Returned == pc = "done"

ProbOnly == /\ Returned /\ call.op = "entropy"
            /\ call.prob.given /\ call.prob.ndarray /\ ~call.data.given

Deviation == Abs(SumSeq(call.prob.v) - Scale)

AllNonNegative(p) == \A i \in 1..Len(p) : p[i] >= 0

HasZero(p) == \E i \in 1..Len(p) : p[i] = 0

IsNonZero(q) == q # 0

InvalidInputError(r) ==
  r.kind = "raise" /\ r.exc = "ValueError" /\ r.site \in {"neither", "both"}

InvalidDistributionError(r) ==
  r.kind = "raise" /\ r.exc = "ValueError" /\ r.site = "sum"

LengthMismatchError(r) ==
  r.kind = "raise" /\ r.exc = "ValueError" /\ r.site = "sizes"

SameLengths(args) == \A j \in 1..Len(args) : Len(args[j]) = Len(args[1])

\* C1: for k >= 2 sequences of the length N >= 1 of y, mi_chain_rule returns
\* k terms, the first mi(X[0], y) and the i-th the conditional mutual
\* information of X[i] and y given combine_symbols(X[0], ..., X[i-1]).
C1_ChainRuleTerms ==
  (/\ Returned /\ call.op = "mi_chain_rule"
   /\ Len(call.X) >= 2 /\ Len(call.y) >= 1
   /\ \A i \in 1..Len(call.X) : Len(call.X[i]) = Len(call.y))
  => /\ ret.kind = "ok"
     /\ Len(ret.val) = Len(call.X)
     /\ Ok(ret.val[1]) = mi(call.X[1], call.y)
     /\ \A i \in 2..Len(call.X) :
          SameOutcome(Ok(ret.val[i]),
                      cond_mi(call.X[i], call.y,
                              combine_symbols(SubSeq(call.X, 1, i - 1)).val, TRUE))

\* C2: mi_chain_rule fails with the length-mismatch error whenever some X[i]
\* or y differs in length from the others, for every k >= 1.  The error is
\* taken by its class, ValueError, whichever statement raises it.
C2_ChainRuleLengthMismatch ==
  (/\ Returned /\ call.op = "mi_chain_rule"
   /\ ~SameLengths(<<call.y>> \o call.X))
  => (ret.kind = "raise" /\ ret.exc = "ValueError")

\* C3: entropy(prob=p) returns a value only when every entry of p is
\* non-negative and the sum is within the tolerance of 1; otherwise it
\* fails with the invalid-distribution error.
C3_DistributionValidated ==
  ProbOnly =>
    LET valid == AllNonNegative(call.prob.v) /\ Deviation <= call.errorVal
    IN /\ ret.kind = "ok" => valid
       /\ ~valid => InvalidDistributionError(ret)

\* C4: on an empty symbol sequence symbols_to_prob, and entropy(data=[]),
\* fail with the invalid-input error.
C4_EmptyInputFails ==
  /\ (Returned /\ call.op = "symbols_to_prob" /\ call.symbols = <<>>)
       => InvalidInputError(ret)
  /\ (Returned /\ call.op = "entropy" /\ call.data.given /\ ~call.prob.given
        /\ call.data.v = <<>>)
       => InvalidInputError(ret)

\* C5: entropy raises the invalid-input error when both or neither of data
\* and prob are supplied, whatever their values and before any other step;
\* when exactly one is supplied that error is not raised.
C5_ExactlyOneArgument ==
  (Returned /\ call.op = "entropy") =>
    LET both == call.data.given /\ call.prob.given
        neither == ~call.data.given /\ ~call.prob.given
    IN /\ (both \/ neither) => (InvalidInputError(ret) /\ steps = <<>>)
       /\ ~(both \/ neither) => ~InvalidInputError(ret)

C5_Witness ==
  /\ Returned /\ call.op = "entropy"
  /\ call.data.given /\ call.prob.given /\ ~call.prob.ndarray
  /\ InvalidInputError(ret) /\ ret.site = "both"

\* C6: combine_symbols of k >= 2 sequences raises the length-mismatch error
\* when the lengths are not all equal, wherever the odd one stands; when all
\* are N long the result is N long and its element i is the tuple of the
\* i-th elements.
C6_CombineSymbols ==
  (Returned /\ call.op = "combine_symbols" /\ Len(call.args) >= 2) =>
    IF SameLengths(call.args)
    THEN /\ ret.kind = "ok"
         /\ Len(ret.val) = Len(call.args[1])
         /\ \A n \in 1..Len(ret.val) :
              /\ Len(ret.val[n]) = Len(call.args)
              /\ \A j \in 1..Len(call.args) : ret.val[n][j] = call.args[j][n]
    ELSE LengthMismatchError(ret)

C6_Witness ==
  /\ Returned /\ call.op = "combine_symbols" /\ Len(call.args) = 3
  /\ Len(call.args[1]) < Len(call.args[2])
  /\ Len(call.args[2]) = Len(call.args[3])
  /\ LengthMismatchError(ret)

\* C7: mi(x, y) equals mi(y, x).
C7_MiSymmetric ==
  (Returned /\ call.op = "mi") => SameOutcome(ret, mi(call.y, call.x))

C7_Witness ==
  /\ Returned /\ call.op = "mi" /\ ret.kind = "ok"
  /\ ret.val # FNum(Zero)
  /\ entropy(Given(call.x), None, DefaultErrorVal)
       # entropy(Given(call.y), None, DefaultErrorVal)

\* C8: for non-empty x, mi(x, x) equals entropy(data=x).
C8_SelfInformation ==
  (Returned /\ call.op = "mi" /\ call.x = call.y /\ call.x # <<>>)
  => SameOutcome(ret, entropy(Given(call.x), None, DefaultErrorVal))

C8_Witness ==
  /\ Returned /\ call.op = "mi" /\ call.x = call.y /\ Len(call.x) >= 3
  /\ ret.kind = "ok" /\ ret.val # FNum(Zero)

C10_BoundaryRaises ==
  ProbOnly =>
    /\ Deviation >= call.errorVal => ret.kind = "raise"
    /\ ret.kind = "ok" => Deviation < call.errorVal
====
